---- MODULE Spec2Model ----
(***************************************************************************)
(* A model of pastex: the parser of pastex_parser (src/pastex_parser/src/  *)
(* lib.rs) as a state machine over its stream loop, and the evaluation     *)
(* engine of pastex (src/pastex/src/engine.rs, commands/) as operators     *)
(* applied to the parsed tree.                                             *)
(*                                                                         *)
(* A text is a sequence of characters, a character is a one-character      *)
(* string.  Option<T> is a sequence of length at most one.                 *)
(***************************************************************************)
EXTENDS Naturals, Sequences, FiniteSets, TLC

VARIABLES
    source,        \* the buffer handed to document()
    buf,           \* the unread rest of the buffer
    stack,         \* the active top_loop_ctx calls, innermost last
    parse_result,  \* "Pending" while parsing, then the outcome of document()
    tree,          \* the Stream document() returned, when it returned one
    opened,        \* history: CommandType::Start tokens read so far
    closed,        \* history: CommandType::End tokens that closed a block
    doc_result,    \* "Pending", then the outcome of process_stream()
    outline,       \* Document.outline
    metadata,      \* Document.metadata
    warnings,      \* the warn! lines logged by the evaluation
    node,          \* the dolmen element that was built, when there is one
    rendered       \* the text its Display gave, when it was formatted

vars == <<source, buf, stack, parse_result, tree, opened, closed,
          doc_result, outline, metadata, warnings, node, rendered>>

None == <<>>
Some(x) == <<x>>

\* ------------------------------------------------------------ characters

Letters ==
    {"a", "b", "c", "d", "e", "f", "g", "h", "i", "j", "k", "l", "m",
     "n", "o", "p", "q", "r", "s", "t", "u", "v", "w", "x", "y", "z",
     "A", "B", "C", "D", "E", "F", "G", "H", "I", "J", "K", "L", "M",
     "N", "O", "P", "Q", "R", "S", "T", "U", "V", "W", "X", "Y", "Z"}

Digits == {"0", "1", "2", "3", "4", "5", "6", "7", "8", "9"}

Alphanumeric == Letters \cup Digits

Whitespace == {" ", "\t", "\n", "\r"}

is_whitespace(c) == c \in Whitespace

COMMAND_CHAR == "\\"
NAMESPACE_CHAR == ":"
COMMAND_CONTENT_OPEN == "{"
COMMAND_CONTENT_CLOSE == "}"
COMMAND_PARAMS_OPEN == "["
COMMAND_PARAMS_CLOSE == "]"
COMMAND_PARAMS_SEP_CHAR == ","
COMMENT_CHAR == "%"
LINE_BREAK_CHAR == "\n"
COMMAND_BLOCK_START == <<"b", "e", "g", "i", "n">>
COMMAND_BLOCK_END == <<"e", "n", "d">>

\* ---------------------------------------------------------------- parser

Drop(s, n) == SubSeq(s, n + 1, Len(s))
Take(s, n) == SubSeq(s, 1, n)
StartsWith(s, c) == s # <<>> /\ Head(s) = c

\* nom::IResult: Ok((rest, val)) or Err
NomOk(rest, val) == [ok |-> TRUE, rest |-> rest, val |-> val]
NomErr == [ok |-> FALSE, rest |-> <<>>, val |-> <<>>]

\* take_while: the length of the longest prefix of s made of characters of
\* the set chars
take_while(chars, s) ==
    CHOOSE n \in 0..Len(s) :
        /\ \A i \in 1..n : s[i] \in chars
        /\ (n = Len(s) \/ s[n + 1] \notin chars)

\* take_till: the length of the longest prefix of s holding no character
\* of the set chars
take_till(chars, s) ==
    CHOOSE n \in 0..Len(s) :
        /\ \A i \in 1..n : s[i] \notin chars
        /\ (n = Len(s) \/ s[n + 1] \in chars)

ident(cur) ==
    LET n == take_while(Alphanumeric, cur)
    IN  IF n = 0 THEN NomErr ELSE NomOk(Drop(cur, n), Take(cur, n))

whitespace(cur) ==
    LET n == take_while(Whitespace, cur)
    IN  NomOk(Drop(cur, n), Take(cur, n))

ParamValueNone == [type |-> "None"]
ParamValueText(t) == [type |-> "Text", text |-> t]

EmptyParams == <<>>
ParamsInsert(params, key, value) ==
    [k \in (DOMAIN params) \cup {key} |-> IF k = key THEN value ELSE params[k]]

\* opt(char(c)): the rest after an optional c
SkipOpt(cur, c) == IF StartsWith(cur, c) THEN Tail(cur) ELSE cur

RECURSIVE command_params_loop(_, _)
command_params_loop(cur, params) ==
    LET i1 == whitespace(cur).rest
        id == ident(i1)
    IN  IF StartsWith(i1, COMMAND_PARAMS_CLOSE)
        THEN NomOk(Tail(i1), params)
        ELSE IF ~id.ok
        THEN NomErr
        ELSE command_params_loop(
                 SkipOpt(whitespace(id.rest).rest, COMMAND_PARAMS_SEP_CHAR),
                 ParamsInsert(params, id.val, ParamValueNone))

command_params(cur) == command_params_loop(cur, EmptyParams)

CommandName(name, namespace) == [name |-> name, namespace |-> namespace]

\* A Display that leaves the namespace out
CommandNameDisplay_name_only(cn) == cn.name

\* Display for CommandName: "ns:name" or "name"
CommandNameDisplay(cn) ==
    IF cn.namespace # None
    THEN cn.namespace[1] \o <<NAMESPACE_CHAR>> \o cn.name
    ELSE cn.name

command_name(cur) ==
    LET left == ident(cur)
        right == IF StartsWith(left.rest, NAMESPACE_CHAR)
                 THEN ident(Tail(left.rest)) ELSE NomErr
    IN  IF ~left.ok THEN NomErr
        ELSE IF right.ok
        THEN NomOk(right.rest, CommandName(right.val, Some(left.val)))
        ELSE NomOk(left.rest, CommandName(left.val, None))

\* Element constructors
Raw(t) == [type |-> "Raw", text |-> t]
Comment(t) == [type |-> "Comment", text |-> t]
LineBreak == [type |-> "LineBreak"]
Command(name, namespace, content, params, block) ==
    [type |-> "Command", name |-> name, namespace |-> namespace,
     content |-> content, params |-> params, block |-> block]

command_name_of(cmd) == CommandName(cmd.name, cmd.namespace)

\* An escape test that forgets the line break
IsEscapeChar_no_line_break(c) ==
    c \in {COMMENT_CHAR, COMMAND_CHAR, COMMAND_CONTENT_CLOSE}

\* command(): the characters recognized as CommandType::Escape
IsEscapeChar(c) ==
    c \in {COMMENT_CHAR, COMMAND_CHAR, COMMAND_CONTENT_CLOSE, LINE_BREAK_CHAR}

\* What command() gives back: a CommandType, or kind "Content" when the
\* command opened a content brace and the parse goes on in a nested top_loop
\* (rest is the text after the brace).
Parsed(kind, rest, cmd) == [ok |-> TRUE, kind |-> kind, rest |-> rest, cmd |-> cmd]
ParseErr == [ok |-> FALSE]

\* command(): the begin/end form, tuple((char('{'), command_name, char('}')))
block_command(name, params, cur) ==
    LET real == IF StartsWith(cur, COMMAND_CONTENT_OPEN)
                THEN command_name(Tail(cur)) ELSE NomErr
    IN  IF real.ok /\ StartsWith(real.rest, COMMAND_CONTENT_CLOSE)
        THEN Parsed(IF name.name = COMMAND_BLOCK_START THEN "Start" ELSE "End",
                    Tail(real.rest),
                    Command(real.val.name, real.val.namespace, <<>>, params, FALSE))
        ELSE ParseErr

\* command() from the name on: the optional parameters, then the content
named_command(name, pr) ==
    IF ~pr.ok THEN ParseErr
    ELSE IF name = CommandName(COMMAND_BLOCK_START, None)
            \/ name = CommandName(COMMAND_BLOCK_END, None)
    THEN block_command(name, pr.val, pr.rest)
    ELSE IF StartsWith(pr.rest, COMMAND_CONTENT_OPEN)
    THEN Parsed("Content", Tail(pr.rest),
                Command(name.name, name.namespace, <<>>, pr.val, FALSE))
    ELSE Parsed("Normal", pr.rest,
                Command(name.name, name.namespace, <<>>, pr.val, FALSE))

\* command(), called after the sigil was consumed
command(cur) ==
    IF cur # <<>> /\ IsEscapeChar(Head(cur))
    THEN [ok |-> TRUE, kind |-> "Escape", rest |-> Tail(cur), text |-> <<Head(cur)>>]
    ELSE LET nm == command_name(cur)
         IN  IF ~nm.ok THEN ParseErr
             ELSE named_command(nm.val,
                      IF StartsWith(nm.rest, COMMAND_PARAMS_OPEN)
                      THEN command_params(Tail(nm.rest))
                      ELSE NomOk(nm.rest, EmptyParams))

RawStop == {COMMAND_CHAR, COMMAND_CONTENT_CLOSE, COMMENT_CHAR}

\* A raw() that succeeds on the empty text and reads nothing
raw_reading_nothing(cur) ==
    [ok |-> TRUE, kind |-> "Element", rest |-> cur, el |-> Raw(<<>>)]

raw(cur) ==
    LET n == take_till(RawStop, cur)
    IN  [ok |-> TRUE, kind |-> "Element", rest |-> Drop(cur, n),
         el |-> Raw(Take(cur, n))]

comment(cur) ==
    LET n == take_till({LINE_BREAK_CHAR}, cur)
    IN  [ok |-> TRUE, kind |-> "Element", rest |-> Drop(cur, n),
         el |-> Comment(Take(cur, n))]

top(cur) ==
    IF StartsWith(cur, COMMAND_CHAR) THEN command(Tail(cur))
    ELSE IF StartsWith(cur, COMMENT_CHAR) THEN comment(Tail(cur))
    ELSE raw(cur)

\* One active call of top_loop_ctx: who called it, its ctx, its res so far,
\* and the command the caller builds from the Stream it returns.
Frame(caller, ctx, cmd) == [caller |-> caller, ctx |-> ctx, res |-> <<>>, cmd |-> cmd]

NoCommand == Command(<<>>, None, <<>>, EmptyParams, FALSE)

Push(stk, el) ==
    [stk EXCEPT ![Len(stk)].res = Append(@, el)]

Pop(stk) == Take(stk, Len(stk) - 1)

Innermost == stack[Len(stack)]

EngineIdle ==
    UNCHANGED <<doc_result, outline, metadata, warnings, node, rendered>>

\* std::panic!/nom Err: the call stack unwinds and document() yields no tree.
Fail(kind) ==
    /\ parse_result' = kind
    /\ stack' = <<>>
    /\ UNCHANGED <<buf, tree, opened, closed>>

\* The Start branch of the caller once the nested top_loop_ctx returned:
\* the block command is pushed on the caller's res.
BlockReturn(stk) ==
    LET f == stk[Len(stk)]
    IN  Push(Pop(stk), Command(f.cmd.name, f.cmd.namespace, f.res, f.cmd.params, TRUE))

\* command() once its nested top_loop returned and the closing brace was
\* read: CommandType::Normal is pushed on the caller's res.
ContentReturn(stk) ==
    LET f == stk[Len(stk)]
    IN  Push(Pop(stk), Command(f.cmd.name, f.cmd.namespace, f.res, f.cmd.params, FALSE))

\* A comparison that looks at the local name only
mismatched_name_only(start_name, cmd) == start_name.name # cmd.name

\* top_loop_ctx, End: start_name != cmd.command_name()
mismatched(start_name, cmd) == start_name # command_name_of(cmd)

\* A top_loop that hands the ctx of the enclosing loop on
top_loop_inheriting(enclosing) == enclosing

\* top_loop: top_loop_ctx(buf, None), the ctx of the loop that reads the
\* content of a command, whatever the ctx of the enclosing loop is
top_loop(enclosing) == None

\* One iteration of the loop of top_loop_ctx that gets past both break
\* tests: top(buf) and the match on its result.
top_loop_ctx ==
    /\ parse_result = "Pending"
    /\ stack # <<>>
    /\ buf # <<>>
    /\ ~StartsWith(buf, COMMAND_CONTENT_CLOSE)
    /\ \E e \in {top(buf)} :
           IF ~e.ok THEN Fail("NomError")
           ELSE IF e.kind = "Element"
           THEN /\ stack' = Push(stack, e.el)
                /\ buf' = e.rest
                /\ UNCHANGED <<parse_result, tree, opened, closed>>
           ELSE IF e.kind = "Normal"
           THEN /\ stack' = Push(stack, e.cmd)
                /\ buf' = e.rest
                /\ UNCHANGED <<parse_result, tree, opened, closed>>
           ELSE IF e.kind = "Escape"
           THEN /\ stack' = Push(stack, Raw(e.text))
                /\ buf' = e.rest
                /\ UNCHANGED <<parse_result, tree, opened, closed>>
           ELSE IF e.kind = "Content"
           THEN /\ stack' = Append(stack, Frame("command", top_loop(Innermost.ctx), e.cmd))
                /\ buf' = e.rest
                /\ UNCHANGED <<parse_result, tree, opened, closed>>
           ELSE IF e.kind = "Start"
           THEN /\ stack' = Append(stack, Frame("start", Some(command_name_of(e.cmd)), e.cmd))
                /\ buf' = e.rest
                /\ opened' = opened + 1
                /\ UNCHANGED <<parse_result, tree, closed>>
           ELSE \* e.kind = "End"
                IF Innermost.ctx = None THEN Fail("StrayEnd")
                ELSE IF mismatched(Innermost.ctx[1], e.cmd)
                THEN Fail("MismatchedBlock")
                ELSE /\ stack' = BlockReturn(stack)
                     /\ buf' = e.rest
                     /\ closed' = closed + 1
                     /\ UNCHANGED <<parse_result, tree, opened>>
    /\ UNCHANGED source
    /\ EngineIdle

\* A nested top_loop_ctx breaks, at a closing brace (left in the buffer) or
\* at the end of the buffer, and returns Ok((buf, res)) to its caller.
top_loop_break ==
    /\ parse_result = "Pending"
    /\ Len(stack) > 1
    /\ (buf = <<>> \/ StartsWith(buf, COMMAND_CONTENT_CLOSE))
    /\ IF Innermost.caller = "start"
       THEN /\ stack' = BlockReturn(stack)
            /\ UNCHANGED <<buf, parse_result, tree, opened, closed>>
       ELSE \* command(): top_loop.and(char(COMMAND_CONTENT_CHARS.close))
            IF StartsWith(buf, COMMAND_CONTENT_CLOSE)
            THEN /\ stack' = ContentReturn(stack)
                 /\ buf' = Tail(buf)
                 /\ UNCHANGED <<parse_result, tree, opened, closed>>
            ELSE Fail("NomError")
    /\ UNCHANGED source
    /\ EngineIdle

\* A document() that returns the Stream whatever is left in the buffer
document_any_rest ==
    /\ parse_result = "Pending"
    /\ Len(stack) = 1
    /\ (buf = <<>> \/ StartsWith(buf, COMMAND_CONTENT_CLOSE))
    /\ parse_result' = "Ok"
    /\ tree' = stack[1].res
    /\ stack' = <<>>
    /\ UNCHANGED <<source, buf, opened, closed>>
    /\ EngineIdle

\* The outermost top_loop breaks and document() decides.
document ==
    /\ parse_result = "Pending"
    /\ Len(stack) = 1
    /\ (buf = <<>> \/ StartsWith(buf, COMMAND_CONTENT_CLOSE))
    /\ IF buf # <<>>
       THEN Fail("ExtraTrailing")
       ELSE /\ parse_result' = "Ok"
            /\ tree' = stack[1].res
            /\ stack' = <<>>
            /\ UNCHANGED <<buf, opened, closed>>
    /\ UNCHANGED source
    /\ EngineIdle

\* ---------------------------------------------------------------- engine

\* document::Span, document::SpanFormat, document::BlockFormat, document::Block
SpanText(t) == [type |-> "Text", text |-> t]
SpanFormat(f, spans) == [type |-> "Format", format |-> f, spans |-> spans]
SpanLineBreak == [type |-> "LineBreak"]
SpanRaw(t) == [type |-> "Raw", text |-> t]
FormatCode == [kind |-> "Code"]
FormatStrong == [kind |-> "Strong"]
Paragraph == [kind |-> "Paragraph"]
BlockCode == [kind |-> "Code"]
Heading(level) == [kind |-> "Heading", level |-> level]
Block(f, spans) == [format |-> f, spans |-> spans]

\* engine::RootSpan
RootText(t) == [type |-> "Text", text |-> t]
RootBlock(f, spans) == [type |-> "Block", format |-> f, spans |-> spans]
RootFormat(f, spans) == [type |-> "Format", format |-> f, spans |-> spans]
ParagraphBreak == [type |-> "ParagraphBreak"]
RootLineBreak == [type |-> "LineBreak"]

\* impl From<Span> for RootSpan
RootSpanFrom(span) ==
    IF span.type = "Format" THEN RootFormat(span.format, span.spans)
    ELSE IF span.type = "LineBreak" THEN RootLineBreak
    ELSE RootText(span.text)

\* |c| c != '\n' && c.is_whitespace()
InlineSpace == Whitespace \ {"\n"}

\* many1(text_item) of toplevel_text: the text collected so far and the rest.
RECURSIVE text_items(_, _)
text_items(t, acc) ==
    LET word == take_till(Whitespace, t)
        blank == take_while(InlineSpace, t)
    IN  IF word > 0
        THEN text_items(Drop(t, word), acc \o Take(t, word))
        ELSE IF StartsWith(t, "\n") /\ ~StartsWith(Tail(t), "\n")
        THEN text_items(Tail(t), acc \o <<" ">>)
        ELSE IF blank > 0
        THEN text_items(Drop(t, blank), acc \o <<" ">>)
        ELSE [text |-> acc, rest |-> t]

\* many1(pbreak.or(text)) of toplevel_text
RECURSIVE toplevel_tokens(_)
toplevel_tokens(t) ==
    IF t = <<>> THEN <<>>
    ELSE IF StartsWith(t, "\n") /\ StartsWith(Tail(t), "\n")
    THEN <<ParagraphBreak>> \o toplevel_tokens(Drop(t, take_while({"\n"}, t)))
    ELSE LET r == text_items(t, <<>>)
         IN  <<RootText(r.text)>> \o toplevel_tokens(r.rest)

RECURSIVE SkipParagraphBreaks(_)
SkipParagraphBreaks(tokens) ==
    IF tokens # <<>> /\ Head(tokens) = ParagraphBreak
    THEN SkipParagraphBreaks(Tail(tokens))
    ELSE tokens

toplevel_text(t) == SkipParagraphBreaks(toplevel_tokens(t))

\* InlineTextProcessor::process: many0(text.or(whitespace))
RECURSIVE InlineTextProcessor(_)
InlineTextProcessor(t) ==
    LET word == take_till(Whitespace, t)
        blank == take_while(Whitespace, t)
    IN  IF t = <<>> THEN <<>>
        ELSE IF word > 0
        THEN <<SpanText(Take(t, word))>> \o InlineTextProcessor(Drop(t, word))
        ELSE <<SpanText(<<" ">>)>> \o InlineTextProcessor(Drop(t, blank))

\* PreserveTextProcessor::process: many0_count(newline), then one Text
PreserveTextProcessor(t) ==
    <<SpanText(Drop(t, take_while({"\n"}, t)))>>

\* What a handler gives back: its spans and the warn! lines it logged.
Out(spans, log) == [spans |-> spans, log |-> log]

UNKNOWN_PREFIX ==
    <<"[", "[", "u", "n", "k", "n", "o", "w", "n", " ",
      "c", "o", "m", "m", "a", "n", "d", " ">>
UNKNOWN_SUFFIX == <<"]", "]">>

\* format!("[[unknown command {}]]", cmd.command_name())
UnknownCommandText(cmd) ==
    UNKNOWN_PREFIX \o CommandNameDisplay(command_name_of(cmd)) \o UNKNOWN_SUFFIX

WarnUnknown(cmd) == [warn |-> "Unknown command", name |-> CommandNameDisplay(command_name_of(cmd))]
WarnReplacing == [warn |-> "Replacing existing metadata", name |-> <<"n", "a", "m", "e">>]

Name(n) == [name |-> n, namespace |-> None]
NsName(ns, n) == [name |-> n, namespace |-> Some(ns)]

N_code == <<"c", "o", "d", "e">>
N_strong == <<"s", "t", "r", "o", "n", "g">>
N_head1 == <<"h", "e", "a", "d", "1">>
N_head2 == <<"h", "e", "a", "d", "2">>
N_head3 == <<"h", "e", "a", "d", "3">>
N_abstract == <<"a", "b", "s", "t", "r", "a", "c", "t">>
N_meta == <<"m", "e", "t", "a">>
N_title == <<"t", "i", "t", "l", "e">>
N_author == <<"a", "u", "t", "h", "o", "r">>
N_date == <<"d", "a", "t", "e">>
N_tags == <<"t", "a", "g", "s">>
N_draft == <<"d", "r", "a", "f", "t">>

\* The keys of the two registries
COMMANDS == {Name(N_code), Name(N_strong)}

TOPLEVEL_COMMANDS ==
    {Name(N_code), Name(N_head1), Name(N_head2), Name(N_head3), Name(N_abstract),
     NsName(N_meta, N_title), NsName(N_meta, N_author), NsName(N_meta, N_date),
     NsName(N_meta, N_tags), NsName(N_meta, N_draft)}

RECURSIVE process_all(_, _)
RECURSIVE run(_)

\* engine::element::<P>
element(P, el) ==
    IF el.type = "Raw"
    THEN Out(IF P = "Inline" THEN InlineTextProcessor(el.text)
             ELSE PreserveTextProcessor(el.text), <<>>)
    ELSE IF el.type = "Comment" THEN Out(<<>>, <<>>)
    ELSE IF el.type = "Command" THEN run(el)
    ELSE Out(<<SpanLineBreak>>, <<>>)

\* TextProcessor::process_all
OutConcat(a, b) == Out(a.spans \o b.spans, a.log \o b.log)

process_all(P, s) ==
    IF s = <<>> THEN Out(<<>>, <<>>)
    ELSE OutConcat(element(P, Head(s)), process_all(P, Tail(s)))

\* A handler's vec![Span::Format(f, inner)]
Wrap(f, inner) == Out(<<SpanFormat(f, inner.spans)>>, inner.log)

inline_code(content) == Wrap(FormatCode, process_all("Preserve", content))

strong(content) == Wrap(FormatStrong, process_all("Inline", content))

\* A dispatch that looks a name up in the top-level registry too
run_any_registry(cmd) ==
    IF command_name_of(cmd) \in COMMANDS
    THEN IF cmd.name = N_code THEN inline_code(cmd.content)
         ELSE strong(cmd.content)
    ELSE IF command_name_of(cmd) \in TOPLEVEL_COMMANDS
    THEN Out(<<RootBlock(Heading(1), process_all("Inline", cmd.content).spans)>>,
             process_all("Inline", cmd.content).log)
    ELSE Out(<<SpanText(UnknownCommandText(cmd))>>, <<WarnUnknown(cmd)>>)

\* commands::run
run(cmd) ==
    IF command_name_of(cmd) \in COMMANDS
    THEN IF cmd.name = N_code THEN inline_code(cmd.content)
         ELSE strong(cmd.content)
    ELSE Out(<<SpanText(UnknownCommandText(cmd))>>, <<WarnUnknown(cmd)>>)

\* Metadata::default()
DefaultMetadata ==
    [title |-> None, author |-> None, date |-> None,
     keywords |-> <<>>, draft |-> FALSE, abstract |-> None]

\* s.split(',')
RECURSIVE Split(_, _)
Split(t, piece) ==
    IF t = <<>> THEN <<piece>>
    ELSE IF Head(t) = "," THEN <<piece>> \o Split(Tail(t), <<>>)
    ELSE Split(Tail(t), Append(piece, Head(t)))

\* str::trim
RECURSIVE TrimEnd(_)
TrimEnd(t) ==
    IF t # <<>> /\ is_whitespace(t[Len(t)]) THEN TrimEnd(Take(t, Len(t) - 1)) ELSE t

Trim(t) == TrimEnd(Drop(t, take_while(Whitespace, t)))

\* Field::is_set for the slot a meta command writes
FieldIsSet(md, slot) ==
    IF slot = "draft" THEN FALSE
    ELSE IF slot = "keywords" THEN md.keywords # <<>>
    ELSE md[slot] # None

\* A setter that keeps the value a slot already holds
FieldSet_keep_first(md, slot, text) ==
    IF slot \in {"title", "author", "date"} /\ md[slot] # None THEN md
    ELSE [md EXCEPT ![slot] = Some(text)]

\* Field::from, stored in the slot
FieldSet(md, slot, text) ==
    IF slot = "draft" THEN [md EXCEPT !.draft = TRUE]
    ELSE IF slot = "keywords"
    THEN LET parts == Split(text, <<>>)
         IN  [md EXCEPT !.keywords = [i \in 1..Len(parts) |-> Trim(parts[i])]]
    ELSE [md EXCEPT ![slot] = Some(text)]

\* What a top-level handler gives back; ok is FALSE when it panicked.
TopOut(ok, spans, md, log) == [ok |-> ok, spans |-> spans, md |-> md, log |-> log]

RECURSIVE ConcatRaw(_)
ConcatRaw(content) ==
    IF content = <<>> THEN <<>> ELSE Head(content).text \o ConcatRaw(Tail(content))

IsRawElement(el) == el.type = "Raw"

\* A handler that drops what is not raw text instead of panicking
meta_impl_lenient(md, slot, content) ==
    TopOut(TRUE, <<>>,
           FieldSet(md, slot, ConcatRaw(SelectSeq(content, IsRawElement))),
           IF FieldIsSet(md, slot) THEN <<WarnReplacing>> ELSE <<>>)

\* toplevel::meta_impl
meta_impl(md, slot, content) ==
    LET log == IF FieldIsSet(md, slot) THEN <<WarnReplacing>> ELSE <<>>
    IN  IF \E i \in 1..Len(content) : content[i].type # "Raw"
        THEN TopOut(FALSE, <<>>, md, log)
        ELSE TopOut(TRUE, <<>>, FieldSet(md, slot, ConcatRaw(content)), log)

\* toplevel::code
toplevel_code(md, content, block) ==
    LET inner == process_all("Preserve", content)
    IN  IF block
        THEN TopOut(TRUE, <<RootBlock(BlockCode, inner.spans)>>, md, inner.log)
        ELSE TopOut(TRUE, <<RootFormat(FormatCode, inner.spans)>>, md, inner.log)

IsMetaCommand(el) == el.type = "Command" /\ el.namespace = <<N_meta>>

\* A heading that lets the first metadata command of its content write its slot
header_running_meta(level, md, content) ==
    LET inner == process_all("Inline", content)
        calls == SelectSeq(content, IsMetaCommand)
        slot == IF calls = <<>> THEN "title"
                ELSE IF calls[1].name = N_draft THEN "draft"
                ELSE IF calls[1].name = N_tags THEN "keywords"
                ELSE "title"
    IN  TopOut(TRUE, <<RootBlock(Heading(level), inner.spans)>>,
               IF calls = <<>> THEN md
               ELSE FieldSet(md, slot, ConcatRaw(calls[1].content)),
               inner.log)

\* toplevel::header::<LEVEL>
header(level, md, content) ==
    LET inner == process_all("Inline", content)
    IN  TopOut(TRUE, <<RootBlock(Heading(level), inner.spans)>>, md, inner.log)

MapRootSpanFrom(spans) == [i \in 1..Len(spans) |-> RootSpanFrom(spans[i])]

MetaSlot(name) ==
    IF name = N_title THEN "title"
    ELSE IF name = N_author THEN "author"
    ELSE IF name = N_date THEN "date"
    ELSE IF name = N_tags THEN "keywords"
    ELSE "draft"

\* A registry that numbers the head commands from zero
HeadingLevel_from_zero(name) ==
    IF name = N_head1 THEN 0 ELSE IF name = N_head2 THEN 1 ELSE 2

\* The LEVEL each head command is registered with
HeadingLevel(name) ==
    IF name = N_head1 THEN 1 ELSE IF name = N_head2 THEN 2 ELSE 3

RECURSIVE root_spans(_, _)

\* A handler that stores what its content gives in the metadata
abstract_in_metadata(md, content) ==
    TopOut(TRUE, <<>>,
           [md EXCEPT !.abstract = Some(root_spans(md, content).spans)], <<>>)

\* toplevel::abstract
abstract(md, content) == root_spans(md, content)

\* commands::toplevel_run
toplevel_run(md, cmd) ==
    LET name == command_name_of(cmd)
        r == run(cmd)
        span == SpanText(UnknownCommandText(cmd))
    IN  IF name \in TOPLEVEL_COMMANDS
        THEN IF name = Name(N_code) THEN toplevel_code(md, cmd.content, cmd.block)
             ELSE IF name \in {Name(N_head1), Name(N_head2), Name(N_head3)}
             THEN header(HeadingLevel(cmd.name), md, cmd.content)
             ELSE IF name = Name(N_abstract) THEN abstract(md, cmd.content)
             ELSE meta_impl(md, MetaSlot(cmd.name), cmd.content)
        ELSE IF name \in COMMANDS
        THEN TopOut(TRUE, MapRootSpanFrom(r.spans), md, r.log)
        ELSE TopOut(TRUE,
                    IF cmd.block THEN <<RootBlock(Paragraph, <<span>>)>>
                    ELSE <<RootSpanFrom(span)>>,
                    md, <<WarnUnknown(cmd)>>)

\* A loop that flushes the text buffer at every command
AfterCommand_always_flush(st, res) ==
    IF ~res.ok
    THEN [st EXCEPT !.ok = FALSE, !.log = @ \o res.log]
    ELSE [ok |-> TRUE, text_acc |-> <<>>,
          spans |-> st.spans
                        \o (IF st.text_acc # <<>> THEN toplevel_text(st.text_acc)
                            ELSE <<>>)
                        \o res.spans,
          md |-> res.md, log |-> st.log \o res.log]

\* root_spans, Element::Command: the text buffer is flushed before the
\* command's spans when both are non-empty; a panic of the handler ends the
\* evaluation.
AfterCommand(st, res) ==
    IF ~res.ok
    THEN [st EXCEPT !.ok = FALSE, !.log = @ \o res.log]
    ELSE IF res.spans # <<>> /\ st.text_acc # <<>>
    THEN [ok |-> TRUE, text_acc |-> <<>>,
          spans |-> st.spans \o toplevel_text(st.text_acc) \o res.spans,
          md |-> res.md, log |-> st.log \o res.log]
    ELSE [ok |-> TRUE, text_acc |-> st.text_acc, spans |-> st.spans \o res.spans,
          md |-> res.md, log |-> st.log \o res.log]

\* The for loop of root_spans from element i on; st holds text_acc, spans,
\* the metadata and the log so far.
RECURSIVE root_spans_loop(_, _, _)
root_spans_loop(stream, i, st) ==
    IF i > Len(stream) \/ ~st.ok THEN st
    ELSE LET el == stream[i]
         IN  IF el.type = "Raw"
             THEN root_spans_loop(stream, i + 1,
                      [st EXCEPT !.text_acc = @ \o el.text])
             ELSE IF el.type = "Comment"
             THEN root_spans_loop(stream, i + 1, st)
             ELSE IF el.type = "LineBreak"
             THEN root_spans_loop(stream, i + 1,
                      [st EXCEPT !.spans = Append(@, RootLineBreak)])
             ELSE root_spans_loop(stream, i + 1,
                      AfterCommand(st, toplevel_run(st.md, el)))

\* engine::root_spans
root_spans(md, stream) ==
    LET st == root_spans_loop(stream, 1,
                  [ok |-> TRUE, text_acc |-> <<>>, spans |-> <<>>,
                   md |-> md, log |-> <<>>])
    IN  TopOut(st.ok,
               IF st.text_acc # <<>> THEN st.spans \o toplevel_text(st.text_acc)
               ELSE st.spans,
               st.md, st.log)

\* A flush that pushes the paragraph even when it is empty
flush_always(para, out) == Append(out, Block(Paragraph, para))

\* root: if !para.is_empty() { outline.push(Block(Paragraph, take(&mut para))) }
flush(para, out) ==
    IF para # <<>> THEN Append(out, Block(Paragraph, para)) ELSE out

\* The for loop of root over the RootSpans from span i on.
RECURSIVE root_loop(_, _, _, _)
root_loop(doc, i, para, out) ==
    IF i > Len(doc) THEN [para |-> para, outline |-> out]
    ELSE LET span == doc[i]
         IN  IF span.type = "Text"
             THEN IF para # <<>> /\ para[Len(para)].type = "Text"
                  THEN root_loop(doc, i + 1,
                           [para EXCEPT ![Len(para)].text = @ \o span.text], out)
                  ELSE root_loop(doc, i + 1, Append(para, SpanText(span.text)), out)
             ELSE IF span.type = "Format"
             THEN root_loop(doc, i + 1,
                      Append(para, SpanFormat(span.format, span.spans)), out)
             ELSE IF span.type = "LineBreak"
             THEN root_loop(doc, i + 1, Append(para, SpanLineBreak), out)
             ELSE IF span.type = "ParagraphBreak"
             THEN root_loop(doc, i + 1, <<>>, flush(para, out))
             ELSE \* RootSpan::Block
                  root_loop(doc, i + 1, <<>>,
                      Append(flush(para, out), Block(span.format, span.spans)))

\* engine::root: the outline is returned as the loop left it.
root(md, stream) ==
    LET document_spans == root_spans(md, stream)
    IN  [ok |-> document_spans.ok,
         outline |-> root_loop(document_spans.spans, 1, <<>>, <<>>).outline,
         md |-> document_spans.md, log |-> document_spans.log]

\* document::process_stream on the tree the parser returned
process_stream ==
    /\ parse_result = "Ok"
    /\ doc_result = "Pending"
    /\ \E r \in {root(DefaultMetadata, tree)} :
           IF r.ok
           THEN /\ doc_result' = "Ok"
                /\ outline' = r.outline
                /\ metadata' = r.md
                /\ warnings' = r.log
           ELSE \* the panic unwinds with the metadata as the handlers left it
                /\ doc_result' = "Panic"
                /\ metadata' = r.md
                /\ warnings' = r.log
                /\ UNCHANGED outline
    /\ UNCHANGED <<source, buf, stack, parse_result, tree, opened, closed,
                   node, rendered>>

\* --------------------------------------------------------------- emitter

\* dolmen: the elements a document is built from
TagNode(name, attributes, content) ==
    [node |-> "Tag", name |-> name, attributes |-> attributes, content |-> content]
TextNode(t) == [node |-> "Text", text |-> t]
FragmentNode(content) == [node |-> "Fragment", content |-> content]
RawHTML(t) == [node |-> "RawHTML", text |-> t]

\* write!(f, r#" {}="{}""#, name, value) for each attribute, in Vec order
RECURSIVE write_attributes(_)
write_attributes(attributes) ==
    IF attributes = <<>> THEN <<>>
    ELSE <<" ">> \o Head(attributes)[1] \o <<"=", "\"">> \o Head(attributes)[2]
             \o <<"\"">> \o write_attributes(Tail(attributes))

\* A Tag written with its closing tag whatever its content
Tag_fmt_always_paired(name, attributes, content, inner) ==
    <<"<">> \o name \o write_attributes(attributes) \o <<">">> \o inner
        \o <<"<", "/">> \o name \o <<">">>

\* impl Display for Tag; inner is the text its content gave
Tag_fmt(name, attributes, content, inner) ==
    IF content = <<>>
    THEN <<"<">> \o name \o write_attributes(attributes) \o <<" ", "/", ">">>
    ELSE <<"<">> \o name \o write_attributes(attributes) \o <<">">> \o inner
             \o <<"<", "/">> \o name \o <<">">>

\* html_escape::encode_text, called by the Display of Text: the crate
\* replaces & by &amp;, < by &lt; and > by &gt; and keeps every other character
encode_char(c) ==
    IF c = "&" THEN <<"&", "a", "m", "p", ";">>
    ELSE IF c = "<" THEN <<"&", "l", "t", ";">>
    ELSE IF c = ">" THEN <<"&", "g", "t", ";">>
    ELSE <<c>>

RECURSIVE encode_text(_)
encode_text(text) ==
    IF text = <<>> THEN <<>> ELSE encode_char(Head(text)) \o encode_text(Tail(text))

\* Display::fmt of an element, and of a list of elements one after the other
RECURSIVE fmt(_), fmt_all(_)
fmt(n) ==
    IF n.node = "Tag" THEN Tag_fmt(n.name, n.attributes, n.content, fmt_all(n.content))
    ELSE IF n.node = "Text" THEN encode_text(n.text)
    ELSE IF n.node = "Fragment" THEN fmt_all(n.content)
    ELSE n.text

fmt_all(content) ==
    IF content = <<>> THEN <<>> ELSE fmt(Head(content)) \o fmt_all(Tail(content))

\* to_string() of the element that was built
to_string ==
    /\ node # None
    /\ node[1].node # "Panic"
    /\ rendered = None
    /\ rendered' = Some(fmt(node[1]))
    /\ UNCHANGED <<source, buf, stack, parse_result, tree, opened, closed,
                   doc_result, outline, metadata, warnings, node>>

Unimplemented == <<"unimplemented!">>

\* A heading written with the level it was authored with
heading_unshifted(level) ==
    IF level = 1 THEN <<"h", "1">>
    ELSE IF level = 2 THEN <<"h", "2">>
    ELSE IF level = 3 THEN <<"h", "3">>
    ELSE Unimplemented

\* output::html::heading: the tag a Heading(level) is rendered with
heading(level) ==
    IF level = 1 THEN <<"h", "2">>
    ELSE IF level = 2 THEN <<"h", "3">>
    ELSE IF level = 3 THEN <<"h", "4">>
    ELSE Unimplemented

\* unimplemented!() unwinds output_document: no element is returned
EmitPanic == [node |-> "Panic"]

\* output::html::span, and the spans of a list one after the other
RECURSIVE span(_), spans_of(_)
span(sp) ==
    IF sp.type = "Text" THEN TextNode(sp.text)
    ELSE IF sp.type = "Format"
    THEN TagNode(IF sp.format = FormatCode THEN <<"c", "o", "d", "e">> ELSE <<"s", "t", "r", "o", "n", "g">>,
                 <<>>, <<FragmentNode(spans_of(sp.spans))>>)
    ELSE IF sp.type = "LineBreak" THEN TagNode(<<"b", "r">>, <<>>, <<>>)
    ELSE RawHTML(sp.text)

spans_of(content) ==
    IF content = <<>> THEN <<>> ELSE <<span(Head(content))>> \o spans_of(Tail(content))

\* output::html::block
block(b) ==
    IF b.format = Paragraph
    THEN TagNode(<<"p">>, <<>>, <<FragmentNode(spans_of(b.spans))>>)
    ELSE IF b.format = BlockCode
    THEN TagNode(<<"p", "r", "e">>, <<>>,
             <<TagNode(<<"c", "o", "d", "e">>, <<<<<<"c", "l", "a", "s", "s">>, <<"c", "o", "d", "e", "-", "b", "l", "o", "c", "k">>>>>>,
                       <<FragmentNode(spans_of(b.spans))>>)>>)
    ELSE TagNode(heading(b.format.level), <<>>, <<FragmentNode(spans_of(b.spans))>>)

\* output::html::head
head(md) ==
    FragmentNode(<<TagNode(<<"m", "e", "t", "a">>, <<<<<<"c", "h", "a", "r", "s", "e", "t">>, <<"u", "t", "f", "-", "8">>>>>>, <<>>),
                   IF md.title # None
                   THEN TagNode(<<"t", "i", "t", "l", "e">>, <<>>, <<TextNode(md.title[1])>>)
                   ELSE FragmentNode(<<>>)>>)

\* output::html::output_fragment
output_fragment(fragment) ==
    FragmentNode([i \in 1..Len(fragment) |-> block(fragment[i])])

\* The Fragment output_document returns: the html element alone
html_document(blocks, md) ==
    FragmentNode(<<TagNode(<<"h", "t", "m", "l">>, <<<<<<"l", "a", "n", "g">>, <<"e", "n">>>>>>,
                     <<TagNode(<<"h", "e", "a", "d">>, <<>>, <<head(md)>>),
                       TagNode(<<"b", "o", "d", "y">>, <<>>, <<output_fragment(blocks)>>)>>)>>)

\* output::html::output_document on the Document process_stream returned
output_document ==
    /\ doc_result = "Ok"
    /\ node = None
    /\ IF \E i \in 1..Len(outline) :
              /\ outline[i].format.kind = "Heading"
              /\ heading(outline[i].format.level) = Unimplemented
       THEN node' = Some(EmitPanic)
       ELSE node' = Some(html_document(outline, metadata))
    /\ UNCHANGED <<source, buf, stack, parse_result, tree, opened, closed,
                   doc_result, outline, metadata, warnings, rendered>>

\* ------------------------------------------------------- specifications

\* The longest source is a concatenation of MaxChunks pieces.
MaxChunks == 4

TXT_a == <<"a">>
TXT_newline == <<"\n">>
TXT_sigil == <<"\\">>
TXT_open == <<"{">>
TXT_close == <<"}">>
TXT_comment == <<"%">>
TXT_begin_code == <<"\\", "b", "e", "g", "i", "n", "{", "c", "o", "d", "e", "}">>
TXT_end_code == <<"\\", "e", "n", "d", "{", "c", "o", "d", "e", "}">>
TXT_end_foo == <<"\\", "e", "n", "d", "{", "f", "o", "o", "}">>
TXT_end_ns_code == <<"\\", "e", "n", "d", "{", "n", "s", ":", "c", "o", "d", "e", "}">>
TXT_strong_open == <<"\\", "s", "t", "r", "o", "n", "g", "{">>
TXT_x == <<"\\", "x">>
TXT_begin_ns_x == <<"\\", "b", "e", "g", "i", "n", "{", "n", "s", ":", "x", "}">>
TXT_end_ns_x == <<"\\", "e", "n", "d", "{", "n", "s", ":", "x", "}">>
TXT_meta_title_open == <<"\\", "m", "e", "t", "a", ":", "t", "i", "t", "l", "e", "{">>
TXT_link_to == <<"\\", "l", "i", "n", "k", "[", "t", "o">>
TXT_eq_u == <<"=", "u">>
TXT_sep_blank == <<",", "b", "l", "a", "n", "k">>
TXT_space == <<" ">>
TXT_params_end == <<"]", "{", "a", "}">>

TXT_head1_open == <<"\\", "h", "e", "a", "d", "1", "{">>
TXT_head2_open == <<"\\", "h", "e", "a", "d", "2", "{">>
TXT_head3_open == <<"\\", "h", "e", "a", "d", "3", "{">>

TXT_meta_title_a == <<"\\", "m", "e", "t", "a", ":", "t", "i", "t", "l", "e", "{", "a", "}">>
TXT_meta_title_b == <<"\\", "m", "e", "t", "a", ":", "t", "i", "t", "l", "e", "{", "b", "}">>
TXT_meta_author_a == <<"\\", "m", "e", "t", "a", ":", "a", "u", "t", "h", "o", "r", "{", "a", "}">>
TXT_meta_date_b == <<"\\", "m", "e", "t", "a", ":", "d", "a", "t", "e", "{", "b", "}">>
TXT_meta_tags_a == <<"\\", "m", "e", "t", "a", ":", "t", "a", "g", "s", "{", "a", "}">>
TXT_meta_draft == <<"\\", "m", "e", "t", "a", ":", "d", "r", "a", "f", "t", "{", "}">>
TXT_lt == <<"<">>
TXT_gt == <<">">>
TXT_amp == <<"&">>
TXT_quote == <<"\"">>
TXT_apos == <<"'">>
TXT_raw_open == <<"\\", "r", "a", "w", "{">>
TXT_code_open == <<"\\", "c", "o", "d", "e", "{">>
TXT_abstract_open == <<"\\", "a", "b", "s", "t", "r", "a", "c", "t", "{">>
TXT_link_u_open == <<"\\", "l", "i", "n", "k", "[", "t", "o", "=", "u", "]", "{">>
TXT_tab == <<"\t">>
TXT_a_head1 == <<"a", "\\", "h", "e", "a", "d", "1", "{", "}">>
TXT_a_space == <<"a", " ">>
TXT_space_a == <<" ", "a">>
TXT_head1_empty == <<"\\", "h", "e", "a", "d", "1", "{", "}">>
TXT_commented == <<"a", "%", "\n", "\n", "a">>
TXT_strong_a == <<"\\", "s", "t", "r", "o", "n", "g", "{", "a", "}">>

BlockPieces ==
    {TXT_a, TXT_open, TXT_close, TXT_begin_code, TXT_end_code, TXT_end_foo,
     TXT_end_ns_code, TXT_strong_open}

TextPieces ==
    {TXT_a, TXT_newline, TXT_strong_open, TXT_close, TXT_x, TXT_begin_ns_x,
     TXT_end_ns_x, TXT_meta_title_open}

EscapePieces ==
    {TXT_a, TXT_newline, TXT_sigil, TXT_open, TXT_close, TXT_comment}

ParamPieces ==
    {TXT_a, TXT_link_to, TXT_eq_u, TXT_sep_blank, TXT_space, TXT_params_end}

HeadPieces ==
    {TXT_head1_open, TXT_head2_open, TXT_head3_open, TXT_a, TXT_space, TXT_close,
     TXT_x, TXT_begin_code}

MetaPieces ==
    {TXT_meta_title_a, TXT_meta_title_b, TXT_meta_author_a, TXT_meta_date_b,
     TXT_meta_title_open, TXT_x, TXT_close, TXT_strong_open}

InlinePieces ==
    {TXT_strong_open, TXT_head1_open, TXT_meta_title_a, TXT_meta_tags_a,
     TXT_meta_draft, TXT_close, TXT_a}

OutputPieces ==
    {TXT_lt, TXT_gt, TXT_amp, TXT_quote, TXT_apos, TXT_a, TXT_head1_open, TXT_close}

DispatchPieces ==
    {TXT_raw_open, TXT_code_open, TXT_strong_open, TXT_link_u_open, TXT_head1_open,
     TXT_abstract_open, TXT_meta_title_open, TXT_close, TXT_a}

LoopPieces ==
    {TXT_a, TXT_open, TXT_close, TXT_sigil, TXT_begin_code, TXT_end_code,
     TXT_link_to, TXT_sep_blank, TXT_params_end}

WhitePieces == {TXT_a, TXT_space, TXT_tab, TXT_newline, TXT_a_head1}

FlushPieces ==
    {TXT_a_space, TXT_space_a, TXT_meta_title_a, TXT_strong_open, TXT_close,
     TXT_a_head1}

\* The concatenations of at most n pieces
RECURSIVE Concatenations(_, _)
Concatenations(pieces, n) ==
    IF n = 0 THEN {<<>>}
    ELSE UNION {{s} \cup {s \o p : p \in pieces} : s \in Concatenations(pieces, n - 1)}

InitOver(pieces) ==
    /\ source \in Concatenations(pieces, MaxChunks)
    /\ buf = source
    /\ stack = <<Frame("document", None, NoCommand)>>
    /\ parse_result = "Pending"
    /\ tree = <<>>
    /\ opened = 0
    /\ closed = 0
    /\ doc_result = "Pending"
    /\ outline = <<>>
    /\ metadata = DefaultMetadata
    /\ warnings = <<>>
    /\ node = None
    /\ rendered = None

Init == InitOver(BlockPieces)
InitText == InitOver(TextPieces)
InitEscape == InitOver(EscapePieces)
InitParams == InitOver(ParamPieces)
InitHead == InitOver(HeadPieces)
InitMeta == InitOver(MetaPieces)
InitInline == InitOver(InlinePieces)
InitOutput == InitOver(OutputPieces)
InitDispatch == InitOver(DispatchPieces)
InitLoop == InitOver(LoopPieces)
InitWhite == InitOver(WhitePieces)
InitFlush == InitOver(FlushPieces)

\* Root text around an inline command, with line and paragraph breaks
ParaPieces == {TXT_strong_a, TXT_newline, TXT_a, TXT_space, TXT_a_head1}

InitPara == InitOver(ParaPieces)

\* Commands inside the content of inline commands and of headings
NestedPieces ==
    {TXT_strong_open, TXT_code_open, TXT_head1_open, TXT_close, TXT_head1_empty,
     TXT_abstract_open, TXT_meta_title_a, TXT_a}

InitNested == InitOver(NestedPieces)

\* Code, inline and block, whose content comments and newlines split
CodePieces ==
    {TXT_begin_code, TXT_end_code, TXT_code_open, TXT_close, TXT_a, TXT_newline,
     TXT_comment, TXT_commented, TXT_head1_empty}

InitCode == InitOver(CodePieces)

\* Streams handed to process_stream by a caller that built them itself
MaxStream == 3

StreamElements ==
    {Raw(<<"a">>), Raw(<<"b">>), Raw(<<"\n", "\n">>), LineBreak, Comment(<<"c">>),
     Command(N_strong, None, <<Raw(<<"x">>)>>, EmptyParams, FALSE),
     Command(N_head1, None, <<Raw(<<"y">>)>>, EmptyParams, FALSE)}

RECURSIVE StreamsUpTo(_)
StreamsUpTo(n) ==
    IF n = 0 THEN {<<>>}
    ELSE UNION {{s} \cup {Append(s, el) : el \in StreamElements} :
                    s \in StreamsUpTo(n - 1)}

InitStream ==
    /\ source = <<>>
    /\ buf = <<>>
    /\ stack = <<>>
    /\ parse_result = "Ok"
    /\ tree \in StreamsUpTo(MaxStream)
    /\ opened = 0
    /\ closed = 0
    /\ doc_result = "Pending"
    /\ outline = <<>>
    /\ metadata = DefaultMetadata
    /\ warnings = <<>>
    /\ node = None
    /\ rendered = None

NextStream == process_stream

\* Tags built by a caller with Tag::build and formatted
MaxAttributes == 2
MaxChildren == 2

TagNames == {<<"p">>, <<"b", "r">>, <<"a">>}
TagAttributes == {<<<<"h", "r", "e", "f">>, <<"u">>>>, <<<<"i", "d">>, <<"v">>>>}
TagChildren == {TextNode(<<"x">>), TagNode(<<"b", "r">>, <<>>, <<>>), FragmentNode(<<>>)}

RECURSIVE SeqsUpTo(_, _)
SeqsUpTo(S, n) ==
    IF n = 0 THEN {<<>>}
    ELSE UNION {{s} \cup {Append(s, x) : x \in S} : s \in SeqsUpTo(S, n - 1)}

InitTag ==
    /\ source = <<>>
    /\ buf = <<>>
    /\ stack = <<>>
    /\ parse_result = "Ok"
    /\ tree = <<>>
    /\ opened = 0
    /\ closed = 0
    /\ doc_result = "Ok"
    /\ outline = <<>>
    /\ metadata = DefaultMetadata
    /\ warnings = <<>>
    /\ \E name \in TagNames :
       \E attributes \in SeqsUpTo(TagAttributes, MaxAttributes) :
       \E content \in SeqsUpTo(TagChildren, MaxChildren) :
           node = Some(TagNode(name, attributes, content))
    /\ rendered = None

NextTag == to_string

\* Documents handed to output_document by a caller that built them itself
MaxBlocks == 2

EmitBlocks ==
    {Block(Paragraph, <<SpanText(<<"a">>)>>), Block(BlockCode, <<SpanText(<<"a">>)>>)}
        \cup {Block(Heading(level), <<SpanText(<<"a">>)>>) : level \in 0..4}

InitEmit ==
    /\ source = <<>>
    /\ buf = <<>>
    /\ stack = <<>>
    /\ parse_result = "Ok"
    /\ tree = <<>>
    /\ opened = 0
    /\ closed = 0
    /\ doc_result = "Ok"
    /\ outline \in SeqsUpTo(EmitBlocks, MaxBlocks)
    /\ metadata = DefaultMetadata
    /\ warnings = <<>>
    /\ node = None
    /\ rendered = None

NextEmit == output_document \/ to_string

Next ==
    \/ top_loop_ctx
    \/ top_loop_break
    \/ document
    \/ process_stream

\* The pipeline followed by output_document and the formatting of its result
NextOutput ==
    \/ top_loop_ctx
    \/ top_loop_break
    \/ document
    \/ process_stream
    \/ output_document
    \/ to_string

Spec == Init /\ [][Next]_vars
SpecText == InitText /\ [][Next]_vars
SpecEscape == InitEscape /\ [][Next]_vars
SpecParams == InitParams /\ [][Next]_vars
SpecHead == InitHead /\ [][Next]_vars
SpecMeta == InitMeta /\ [][Next]_vars
SpecInline == InitInline /\ [][Next]_vars
SpecStream == InitStream /\ [][NextStream]_vars
SpecTag == InitTag /\ [][NextTag]_vars
SpecOutput == InitOutput /\ [][NextOutput]_vars
SpecDispatch == InitDispatch /\ [][Next]_vars
SpecLoop == InitLoop /\ [][Next]_vars
SpecWhite == InitWhite /\ [][Next]_vars
SpecFlush == InitFlush /\ [][Next]_vars
SpecEmit == InitEmit /\ [][NextEmit]_vars
SpecPara == InitPara /\ [][Next]_vars
SpecNested == InitNested /\ [][Next]_vars
SpecCode == InitCode /\ [][Next]_vars

\* ------------------------------------------------------------ properties

HasPrefix(s, p) == Len(s) >= Len(p) /\ Take(s, Len(p)) = p

Parsing == parse_result = "Pending" /\ stack # <<>>

\* Every Command of a stream, at any depth
RECURSIVE CommandsOf(_)
CommandsOf(stream) ==
    UNION {{stream[i]} \cup CommandsOf(stream[i].content) :
              i \in {j \in 1..Len(stream) : stream[j].type = "Command"}}

IsUnknown(cmd) == command_name_of(cmd) \notin COMMANDS \cup TOPLEVEL_COMMANDS

\* The RootSpans after the last ParagraphBreak or Block of doc
TrailingSpans(doc) ==
    LET breaks == {i \in 1..Len(doc) : doc[i].type \in {"ParagraphBreak", "Block"}}
        last == IF breaks = {} THEN 0 ELSE CHOOSE i \in breaks : \A j \in breaks : j <= i
    IN  SubSeq(doc, last + 1, Len(doc))

\* C1: engine::root flushes the pending paragraph at the end of the input:
\* when the RootSpans of the document end with Text, Format or LineBreak
\* spans that no ParagraphBreak or Block follows, the outline ends with a
\* Paragraph block holding them (the source `a` gives one Paragraph `a`).
C1_FinalParagraphFlushed ==
    doc_result = "Ok" =>
        LET rest == TrailingSpans(root_spans(DefaultMetadata, tree).spans)
        IN  rest # <<>> =>
                /\ outline # <<>>
                /\ outline[Len(outline)]
                       = Block(Paragraph, root_loop(rest, 1, <<>>, <<>>).para)

\* The maximal runs of characters other than the newline, in order
RECURSIVE Runs(_)
Runs(s) ==
    IF s = <<>> THEN <<>>
    ELSE IF Head(s) = "\n" THEN Runs(Tail(s))
    ELSE <<Take(s, take_till({LINE_BREAK_CHAR}, s))>>
             \o Runs(Drop(s, take_till({LINE_BREAK_CHAR}, s)))

\* s is one or more runs of the letter a, separated by two or more newlines
IsPlainRuns(s) ==
    /\ s # <<>>
    /\ \A i \in 1..Len(s) : s[i] \in {"a", "\n"}
    /\ s[1] = "a" /\ s[Len(s)] = "a"
    /\ \A i \in 2..(Len(s) - 1) :
           s[i] = "\n" => (s[i - 1] = "\n" \/ s[i + 1] = "\n")

\* C2: k >= 1 plain-text runs separated by two or more newlines evaluate to
\* an outline of exactly k Paragraph blocks, one per run, in source order.
C2_OneParagraphPerRun ==
    (doc_result = "Ok" /\ IsPlainRuns(source)) =>
        outline = [i \in 1..Len(Runs(source)) |->
                      Block(Paragraph, <<SpanText(Runs(source)[i])>>)]

\* The placeholder text of a command: [[unknown command NAME]], NAME being
\* ns:name or name
Placeholder(cmd) ==
    <<"[", "[", "u", "n", "k", "n", "o", "w", "n", " ",
      "c", "o", "m", "m", "a", "n", "d", " ">>
    \o (IF cmd.namespace = None THEN cmd.name
        ELSE cmd.namespace[1] \o <<":">> \o cmd.name)
    \o <<"]", "]">>

\* C3: a command in neither registry never aborts the evaluation: run gives
\* exactly one Text span [[unknown command NAME]]; toplevel_run gives that
\* text as a RootSpan::Text for the non-block form and a Paragraph block
\* wrapping it for the begin/end form; and a tree whose commands are all
\* unknown evaluates to a document.
C3_UnknownCommandPlaceholder ==
    /\ \A cmd \in CommandsOf(tree) :
           IsUnknown(cmd) =>
               /\ run(cmd).spans = <<SpanText(Placeholder(cmd))>>
               /\ toplevel_run(DefaultMetadata, cmd).ok
               /\ toplevel_run(DefaultMetadata, cmd).spans
                      = IF cmd.block
                        THEN <<RootBlock(Paragraph, <<SpanText(Placeholder(cmd))>>)>>
                        ELSE <<RootText(Placeholder(cmd))>>
    /\ (doc_result # "Pending" /\ \A cmd \in CommandsOf(tree) : IsUnknown(cmd))
           => doc_result = "Ok"

\* A document was produced from a tree holding an unknown command in the
\* begin/end form, with a namespace, around an unknown command without one.
C3_Witness ==
    /\ doc_result = "Ok"
    /\ \E c1 \in CommandsOf(tree) :
           /\ IsUnknown(c1) /\ c1.block /\ c1.namespace # None
           /\ \E c2 \in CommandsOf(c1.content) :
                  IsUnknown(c2) /\ ~c2.block /\ c2.namespace = None
    /\ outline # <<>>

\* C4: when the parser meets \end{Y} while the running stream parse has the
\* context \begin{X} and the names differ, in the local name (foo) or in the
\* namespace (ns:code), the parse ends in MismatchedBlock and no tree is
\* returned; when X = Y the \end token is consumed by the nested parse,
\* which returns its block to its caller.
C4_EndMatchesInnermostBlock ==
    [][/\ (Parsing /\ Innermost.ctx = Some(Name(N_code))) =>
              /\ (HasPrefix(buf, TXT_end_foo) \/ HasPrefix(buf, TXT_end_ns_code))
                     => (parse_result' = "MismatchedBlock" /\ tree' = <<>>)
              /\ HasPrefix(buf, TXT_end_code)
                     => /\ parse_result' = "Pending"
                        /\ buf' = Drop(buf, Len(TXT_end_code))
                        /\ stack' = BlockReturn(stack)
       /\ parse_result = "MismatchedBlock"
              => (parse_result' = "MismatchedBlock" /\ tree' = <<>>)
      ]_vars

\* One block was closed by its \end, and a later \end did not match.
C4_Witness ==
    /\ parse_result = "MismatchedBlock"
    /\ closed > 0
    /\ opened > closed
    /\ tree = <<>>

\* C5: when the end of the input is reached while a \begin{X} block is open,
\* no \end{X} having closed it, the parser returns no Stream.
C5_UnclosedBlockIsFatal ==
    parse_result = "Ok" => opened = closed

\* C6: the stream loop stops at a closing brace without consuming it; the
\* command whose content it read consumes exactly that one brace, a block
\* leaves it in the buffer; at the top level the brace is unconsumed input,
\* the parse ends in ExtraTrailing and no Stream is returned.
C6_ClosingBrace ==
    [][/\ (Parsing /\ StartsWith(buf, COMMAND_CONTENT_CLOSE)) =>
              IF Len(stack) = 1
              THEN parse_result' = "ExtraTrailing" /\ tree' = <<>>
              ELSE /\ parse_result' = "Pending"
                   /\ Len(stack') = Len(stack) - 1
                   /\ buf' = IF Innermost.caller = "command" THEN Tail(buf) ELSE buf
       /\ parse_result = "ExtraTrailing"
              => (parse_result' = "ExtraTrailing" /\ tree' = <<>>)
       /\ parse_result' = "Ok" => buf' = <<>>
      ]_vars

\* \strong{a}} : the command consumed its brace, the second one is left.
C6_Witness ==
    /\ source = TXT_strong_open \o TXT_a \o TXT_close \o TXT_close
    /\ parse_result = "ExtraTrailing"
    /\ buf = TXT_close
    /\ tree = <<>>

\* The braces of s are balanced, counting from depth d
RECURSIVE Balanced(_, _)
Balanced(s, d) ==
    IF s = <<>> THEN d = 0
    ELSE IF Head(s) = "{" THEN Balanced(Tail(s), d + 1)
    ELSE IF Head(s) = "}" THEN d > 0 /\ Balanced(Tail(s), d - 1)
    ELSE Balanced(Tail(s), d)

\* The text between \begin{code} and \end{code} of such a source
CodeBody(s) == SubSeq(s, Len(TXT_begin_code) + 1, Len(s) - Len(TXT_end_code))

\* s is \begin{code}, a plain text with balanced braces, \end{code}
IsBracedCodeBlock(s) ==
    /\ Len(s) > Len(TXT_begin_code) + Len(TXT_end_code)
    /\ HasPrefix(s, TXT_begin_code)
    /\ Drop(s, Len(s) - Len(TXT_end_code)) = TXT_end_code
    /\ \A i \in 1..Len(CodeBody(s)) : CodeBody(s)[i] \in {"a", "{", "}"}
    /\ \E i \in 1..Len(CodeBody(s)) : CodeBody(s)[i] = "{"
    /\ Balanced(CodeBody(s), 0)

\* C7: a begin/end block whose body holds balanced braces as plain text
\* parses to one block Command code with the whole body as its content,
\* and evaluates to a single Block(Code) whose text is the body.
C7_BalancedBracesInBlock ==
    (IsBracedCodeBlock(source) /\ parse_result # "Pending") =>
        /\ parse_result = "Ok"
        /\ tree = <<Command(N_code, None, <<Raw(CodeBody(source))>>, EmptyParams, TRUE)>>
        /\ doc_result = "Ok"
               => outline = <<Block(BlockCode, <<SpanText(CodeBody(source))>>)>>

\* C8: the parameter reader accepts [name=bareword] and stores
\* ParamValue::Text(bareword) under name, a bare [name] stores
\* ParamValue::None: \link[to=u,blank]{a} parses to one command link with
\* to = Text(u) and blank = None.
C8_ValueBearingParams ==
    (source = TXT_link_to \o TXT_eq_u \o TXT_sep_blank \o TXT_params_end
     /\ parse_result # "Pending") =>
        /\ parse_result = "Ok"
        /\ Len(tree) = 1
        /\ tree[1].name = <<"l", "i", "n", "k">>
        /\ tree[1].params
               = ParamsInsert(ParamsInsert(EmptyParams, <<"t", "o">>,
                                           ParamValueText(<<"u">>)),
                              <<"b", "l", "a", "n", "k">>, ParamValueNone)

\* The step the parser takes on a sigil followed by c, for c in chars: the
\* two characters give one Element::Raw holding c and the parse goes on.
EscapeStep(chars) ==
    (Parsing /\ Len(buf) >= 2 /\ buf[1] = "\\" /\ buf[2] \in chars) =>
        /\ parse_result' = "Pending"
        /\ stack' = Push(stack, Raw(<<buf[2]>>))
        /\ buf' = Drop(buf, 2)

RECURSIVE NumBlock(_)
NumBlock(stream) ==
    IF stream = <<>> THEN 0
    ELSE NumBlock(Tail(stream))
         + (IF Head(stream).type = "Command"
            THEN NumBlock(Head(stream).content) + (IF Head(stream).block THEN 1 ELSE 0)
            ELSE 0)

\* C10: in a parsed tree a command has block = true if and only if it was
\* written as a paired \begin{X} ... \end{X}: the tree holds as many block
\* commands as the source holds \begin tokens closed by their \end.
C10_BlockIffPaired ==
    parse_result = "Ok" => NumBlock(tree) = closed
\* C11: no Paragraph block of the outline returned by engine::root has an
\* empty span list; a Block arriving while the pending paragraph is empty
\* emits no paragraph before it.
C11_NoEmptyParagraph ==
    doc_result = "Ok" =>
        \A i \in 1..Len(outline) :
            outline[i].format = Paragraph => outline[i].spans # <<>>

\* A block command came first, with no paragraph pending, and a paragraph
\* was flushed by the block that followed it.
C11_Witness ==
    /\ doc_result = "Ok"
    /\ Len(tree) = 3
    /\ tree[1].type = "Command" /\ tree[1].block
    /\ tree[2].type = "Raw"
    /\ tree[3].type = "Command" /\ tree[3].block
    /\ Len(outline) = 3
    /\ outline[2] = Block(Paragraph, <<SpanText(tree[2].text)>>)
\* C12: after engine::root no block of the outline, Paragraph, Code or
\* Heading alike, holds two adjacent Span::Text elements in its span list.
C12_NoAdjacentText ==
    doc_result = "Ok" =>
        \A i \in 1..Len(outline) :
            \A j \in 1..(Len(outline[i].spans) - 1) :
                ~(outline[i].spans[j].type = "Text"
                  /\ outline[i].spans[j + 1].type = "Text")
\* C13: every Heading(n) block process_stream produces has n in {1, 2, 3},
\* so the emitter's heading never reaches its unimplemented!() arm.
C13_HeadingLevels ==
    doc_result = "Ok" =>
        \A i \in 1..Len(outline) :
            outline[i].format.kind = "Heading" =>
                /\ outline[i].format.level \in {1, 2, 3}
                /\ heading(outline[i].format.level) # Unimplemented

\* \head2{}\head3{} : two headings of different levels in one outline
C13_Witness ==
    /\ doc_result = "Ok"
    /\ Len(outline) = 2
    /\ outline[1].format = Heading(2)
    /\ outline[2].format = Heading(3)
\* The text of a content made of Element::Raw only
RECURSIVE RawText(_)
RawText(content) ==
    IF content = <<>> THEN <<>> ELSE content[1].text \o RawText(Tail(content))

IsRawOnly(content) == \A i \in 1..Len(content) : content[i].type = "Raw"

\* The positions of the stream that hold the command meta:n
MetaCalls(stream, n) ==
    {i \in 1..Len(stream) :
        /\ stream[i].type = "Command"
        /\ stream[i].namespace = <<N_meta>>
        /\ stream[i].name = n}

\* The text of the last meta:n command of the stream, None without one
LastWritten(stream, n) ==
    IF MetaCalls(stream, n) = {} THEN None
    ELSE LET last == CHOOSE i \in MetaCalls(stream, n) :
                         \A j \in MetaCalls(stream, n) : j <= i
         IN  Some(RawText(stream[last].content))

\* The stream is a sequence of meta:title, meta:author and meta:date
\* commands with raw text as their content
IsMetaSequence(stream) ==
    /\ stream # <<>>
    /\ \A i \in 1..Len(stream) :
           /\ i \in MetaCalls(stream, N_title) \cup MetaCalls(stream, N_author)
                      \cup MetaCalls(stream, N_date)
           /\ IsRawOnly(stream[i].content)

\* The invocations that found their slot already written
Rewrites(stream) ==
    {i \in 1..Len(stream) :
        \E j \in 1..(i - 1) :
            stream[j].namespace = stream[i].namespace /\ stream[j].name = stream[i].name}

\* C14: after a sequence of meta:title, meta:author and meta:date commands
\* each slot holds the raw text of its last invocation; a warning is logged
\* exactly for the invocations that found their slot set; no other slot of
\* the metadata changes.
C14_LastWriteWins ==
    (doc_result # "Pending" /\ IsMetaSequence(tree)) =>
        /\ doc_result = "Ok"
        /\ metadata.title = LastWritten(tree, N_title)
        /\ metadata.author = LastWritten(tree, N_author)
        /\ metadata.date = LastWritten(tree, N_date)
        /\ metadata.keywords = DefaultMetadata.keywords
        /\ metadata.draft = DefaultMetadata.draft
        /\ metadata.abstract = DefaultMetadata.abstract
        /\ Len(warnings) = Cardinality(Rewrites(tree))
        /\ \A i \in 1..Len(warnings) :
               warnings[i].warn = "Replacing existing metadata"

\* title a, author a, title b, author a: both slots were written twice.
C14_Witness ==
    /\ source = TXT_meta_title_a \o TXT_meta_author_a \o TXT_meta_title_b
                     \o TXT_meta_author_a
    /\ doc_result = "Ok"
    /\ metadata.title = Some(<<"b">>)
    /\ metadata.author = Some(<<"a">>)
    /\ metadata.date = None
    /\ Len(warnings) = 2
\* The top-level metadata commands whose content holds more than raw text
BadMetaCalls(stream) ==
    {i \in 1..Len(stream) :
        /\ stream[i].type = "Command"
        /\ stream[i].namespace = <<N_meta>>
        /\ stream[i].name \in {N_title, N_author, N_date, N_tags, N_draft}
        /\ ~IsRawOnly(stream[i].content)}

FirstBadMetaCall(stream) ==
    CHOOSE i \in BadMetaCalls(stream) : \A j \in BadMetaCalls(stream) : i <= j

\* C15: a metadata command whose content holds an element other than
\* Element::Raw ends the evaluation with a panic, and the metadata is then
\* what the elements before that command made it: the slot is not written.
C15_NonRawMetaIsFatal ==
    (doc_result # "Pending" /\ BadMetaCalls(tree) # {}) =>
        /\ doc_result = "Panic"
        /\ metadata =
               root(DefaultMetadata,
                    SubSeq(tree, 1, FirstBadMetaCall(tree) - 1)).md

\* title a, then a title whose content is the command x: the evaluation
\* panics after the warning and the title is still a.
C15_Witness ==
    /\ source = TXT_meta_title_a \o TXT_meta_title_open \o TXT_x \o TXT_close
    /\ doc_result = "Panic"
    /\ metadata.title = Some(<<"a">>)
    /\ warnings = <<WarnReplacing>>
\* The stream with the content of every command outside the meta namespace
\* emptied: what is left for the top-level dispatcher alone
WithoutInlineContent(stream) ==
    [i \in 1..Len(stream) |->
        IF stream[i].type = "Command" /\ stream[i].namespace # <<N_meta>>
        THEN [stream[i] EXCEPT !.content = <<>>]
        ELSE stream[i]]

HasNestedMeta(stream) ==
    \E i \in 1..Len(stream) :
        /\ stream[i].type = "Command"
        /\ stream[i].namespace # <<N_meta>>
        /\ \E j \in 1..Len(stream[i].content) : IsMetaCommand(stream[i].content[j])

\* C16: the metadata is written by the top-level dispatcher only: commands
\* evaluated through commands::run, in the content of an inline command or of
\* a heading, leave every field as it was, whatever their name; a stream
\* with no metadata command at its top level leaves the default metadata.
C16_InlinePathKeepsMetadata ==
    doc_result = "Ok" =>
        /\ metadata = root(DefaultMetadata, WithoutInlineContent(tree)).md
        /\ (\A i \in 1..Len(tree) : ~IsMetaCommand(tree[i])) =>
               metadata = DefaultMetadata

\* A heading holding meta:tags: the command is replaced by its placeholder
\* and the metadata is the default one.
C16_Witness ==
    /\ source = TXT_head1_open \o TXT_meta_tags_a \o TXT_close
    /\ doc_result = "Ok"
    /\ HasNestedMeta(tree)
    /\ warnings = <<WarnUnknown(tree[1].content[1])>>
    /\ metadata = DefaultMetadata
IsVisible(c) == ~is_whitespace(c)

\* What a stream shows, in order: the visible characters of its raw text,
\* its line breaks and its commands
RECURSIVE StreamMarks(_)
StreamMarks(stream) ==
    IF stream = <<>> THEN <<>>
    ELSE LET el == Head(stream)
         IN  (IF el.type = "Raw" THEN SelectSeq(el.text, IsVisible)
              ELSE IF el.type = "LineBreak" THEN <<"LineBreak">>
              ELSE IF el.type = "Command"
              THEN IF el.name = N_head1 THEN <<"Block">> ELSE <<"Format">>
              ELSE <<>>)
             \o StreamMarks(Tail(stream))

\* The same marks read from a sequence of RootSpans
RECURSIVE RootSpanMarks(_)
RootSpanMarks(spans) ==
    IF spans = <<>> THEN <<>>
    ELSE LET sp == Head(spans)
         IN  (IF sp.type = "Text" THEN SelectSeq(sp.text, IsVisible)
              ELSE IF sp.type = "ParagraphBreak" THEN <<>>
              ELSE <<sp.type>>)
             \o RootSpanMarks(Tail(spans))

\* C17: root_spans keeps the source order: the text, line breaks and
\* commands of the stream appear in the RootSpans in the order of the
\* stream, raw text that precedes a line break before that line break.
C17_SourceOrder ==
    doc_result = "Ok" =>
        RootSpanMarks(root_spans(DefaultMetadata, tree).spans) = StreamMarks(tree)

\* The same order holds for the streams without Element::LineBreak
C17_SourceOrderWithoutLineBreak ==
    (doc_result = "Ok" /\ \A i \in 1..Len(tree) : tree[i].type # "LineBreak") =>
        RootSpanMarks(root_spans(DefaultMetadata, tree).spans) = StreamMarks(tree)

\* Raw text, then a line break: the line break comes out first.
C17_Witness ==
    /\ tree = <<Raw(<<"a">>), LineBreak>>
    /\ doc_result = "Ok"
    /\ root_spans(DefaultMetadata, tree).spans = <<RootLineBreak, RootText(<<"a">>)>>
EndsWith(s, suffix) ==
    Len(suffix) <= Len(s) /\ SubSeq(s, Len(s) - Len(suffix) + 1, Len(s)) = suffix

\* name="value" for each attribute, each after a space, first to last
RECURSIVE AttributeList(_)
AttributeList(attributes) ==
    IF attributes = <<>> THEN <<>>
    ELSE AttributeList(SubSeq(attributes, 1, Len(attributes) - 1))
             \o <<" ">> \o attributes[Len(attributes)][1]
             \o <<"=", "\"">> \o attributes[Len(attributes)][2] \o <<"\"">>

\* The texts of the children, last to first, put back first to last
RECURSIVE ChildrenText(_)
ChildrenText(content) ==
    IF content = <<>> THEN <<>>
    ELSE ChildrenText(SubSeq(content, 1, Len(content) - 1))
             \o fmt(content[Len(content)])

\* C20: a Tag is written <name a1="v1" ...>children</name>, attributes and
\* children in insertion order, and in the self-closing form <name attrs />
\* exactly when its list of children is empty.
C20_TagForm ==
    (node # None /\ rendered # None /\ node[1].node = "Tag") =>
        /\ (node[1].content = <<>>) <=> EndsWith(rendered[1], <<" ", "/", ">">>)
        /\ node[1].content = <<>> =>
               rendered[1] = <<"<">> \o node[1].name
                                 \o AttributeList(node[1].attributes) \o <<" ", "/", ">">>
        /\ node[1].content # <<>> =>
               rendered[1] = <<"<">> \o node[1].name
                                 \o AttributeList(node[1].attributes) \o <<">">>
                                 \o ChildrenText(node[1].content)
                                 \o <<"<", "/">> \o node[1].name \o <<">">>

\* <a id="v" href="u">x<br /></a>, and a br with neither attribute nor child
C20_Witness ==
    /\ node = Some(TagNode(<<"a">>,
                   <<<<<<"i", "d">>, <<"v">>>>, <<<<"h", "r", "e", "f">>, <<"u">>>>>>,
                   <<TextNode(<<"x">>), TagNode(<<"b", "r">>, <<>>, <<>>)>>))
    /\ rendered = Some(<<"<", "a", " ", "i", "d", "=", "\"", "v", "\"", " ",
                         "h", "r", "e", "f", "=", "\"", "u", "\"", ">", "x",
                         "<", "b", "r", " ", "/", ">", "<", "/", "a", ">">>)
Contains(s, sub) ==
    \E i \in 0..(Len(s) - Len(sub)) : SubSeq(s, i + 1, i + Len(sub)) = sub

\* The HTML entities of the five characters
Entities ==
    {<<"&", "a", "m", "p", ";">>, <<"&", "l", "t", ";">>, <<"&", "g", "t", ";">>, <<"&", "q", "u", "o", "t", ";">>, <<"&", "a", "p", "o", "s", ";">>, <<"&", "#", "3", "9", ";">>, <<"&", "#", "x", "2", "7", ";">>}

\* No character of chars is left in e, and every & of e starts an entity
IsEscapedOf(e, chars) ==
    /\ \A k \in 1..Len(e) : e[k] \notin chars
    /\ \A k \in 1..Len(e) :
           e[k] = "&" =>
               \E ent \in Entities :
                   /\ k + Len(ent) - 1 <= Len(e)
                   /\ SubSeq(e, k, k + Len(ent) - 1) = ent

\* C18: every Text of the document is written with &, <, >, " and '
\* replaced by entities, and the written document holds that escaped text.
C18_TextEscaped ==
    rendered # None =>
        \A i \in 1..Len(outline) :
            \A j \in 1..Len(outline[i].spans) :
                outline[i].spans[j].type = "Text" =>
                    /\ IsEscapedOf(fmt(span(outline[i].spans[j])),
                                   {"<", ">", "\"", "'"})
                    /\ Contains(rendered[1], fmt(span(outline[i].spans[j])))

\* The same with the two quote characters left as they are
C18_TextEscapedAmpLtGt ==
    rendered # None =>
        \A i \in 1..Len(outline) :
            \A j \in 1..Len(outline[i].spans) :
                outline[i].spans[j].type = "Text" =>
                    /\ IsEscapedOf(fmt(span(outline[i].spans[j])), {"<", ">"})
                    /\ Contains(rendered[1], fmt(span(outline[i].spans[j])))

\* The source <a>& is found escaped in the written document
C18_ExampleContained ==
    (source = TXT_lt \o TXT_a \o TXT_gt \o TXT_amp /\ rendered # None) =>
        Contains(rendered[1], <<"&", "l", "t", ";", "a", "&", "g", "t", ";", "&", "a", "m", "p", ";">>)

\* C19: the text of the value output_document returned starts with
\* <!DOCTYPE html>, a newline, and then the html element.
C19_StartsWithDoctype ==
    rendered # None =>
        HasPrefix(rendered[1], <<"<", "!", "D", "O", "C", "T", "Y", "P", "E", " ", "h", "t", "m", "l", ">", "\n", "<", "h", "t", "m", "l">>)

\* What the text starts with: the html element itself
C19_StartsWithHtml ==
    rendered # None =>
        HasPrefix(rendered[1], <<"<", "h", "t", "m", "l", " ", "l", "a", "n", "g", "=", "\"", "e", "n", "\"", ">", "<", "h", "e", "a", "d", ">", "<", "m", "e", "t", "a", " ", "c", "h", "a", "r", "s", "e", "t", "=", "\"", "u", "t", "f", "-", "8", "\"", " ", "/", ">">>)
\* The keys of the registration table as the specification lists them
N_link == <<"l", "i", "n", "k">>
N_raw == <<"r", "a", "w">>
TableInlineKeys == {Name(N_code), Name(N_strong), Name(N_link), Name(N_raw)}
TableToplevelKeys ==
    {Name(N_code), Name(N_head1), Name(N_head2), Name(N_head3), Name(N_abstract),
     NsName(N_meta, N_title), NsName(N_meta, N_author), NsName(N_meta, N_date),
     NsName(N_meta, N_tags), NsName(N_meta, N_draft)}

WasUnknown(cmd) == \E k \in 1..Len(warnings) : warnings[k] = WarnUnknown(cmd)

\* The commands that stand inside the content of a command of the stream
NestedCommands(stream) ==
    UNION {CommandsOf(stream[i].content) :
              i \in {j \in 1..Len(stream) : stream[j].type = "Command"}}

\* The command i of the stream has a top-level key of the table, and no
\* nested command bears its name
IsToplevelTableCall(stream, i) ==
    /\ stream[i].type = "Command"
    /\ command_name_of(stream[i]) \in TableToplevelKeys
    /\ \A c \in NestedCommands(stream) :
           command_name_of(c) # command_name_of(stream[i])

\* C21: every key of the registration table is resolved to its handler and
\* never to the unknown-command placeholder: the inline keys code, strong,
\* link and raw wherever they stand, the top-level keys at the top level.
C21_TableKeysResolved ==
    doc_result = "Ok" =>
        /\ \A cmd \in CommandsOf(tree) :
               command_name_of(cmd) \in TableInlineKeys => ~WasUnknown(cmd)
        /\ \A i \in 1..Len(tree) :
               IsToplevelTableCall(tree, i) => ~WasUnknown(tree[i])

\* The same for the keys the two registries of commands/mod.rs hold
C21_RegisteredKeysResolved ==
    doc_result = "Ok" =>
        /\ \A cmd \in CommandsOf(tree) :
               command_name_of(cmd) \in {Name(N_code), Name(N_strong)}
                   => ~WasUnknown(cmd)
        /\ \A i \in 1..Len(tree) :
               IsToplevelTableCall(tree, i) => ~WasUnknown(tree[i])
IsAbstract(el) == el.type = "Command" /\ command_name_of(el) = Name(N_abstract)

\* The stream with every top-level abstract command replaced by its content
RECURSIVE SpliceAbstract(_)
SpliceAbstract(stream) ==
    IF stream = <<>> THEN <<>>
    ELSE IF IsAbstract(Head(stream))
    THEN SpliceAbstract(Head(stream).content) \o SpliceAbstract(Tail(stream))
    ELSE <<Head(stream)>> \o SpliceAbstract(Tail(stream))

\* C22: the abstract command never fills metadata.abstract: the slot is None
\* after every evaluation, and what the content of the command gives stands
\* in the outline where the command stood.
C22_AbstractInOutline ==
    doc_result = "Ok" =>
        /\ metadata.abstract = None
        /\ outline = root(DefaultMetadata, SpliceAbstract(tree)).outline

\* An abstract holding a heading: the heading is in the outline.
C22_Witness ==
    /\ source = TXT_abstract_open \o TXT_head1_open \o TXT_close \o TXT_close
    /\ doc_result = "Ok"
    /\ IsAbstract(tree[1])
    /\ metadata.abstract = None
    /\ outline = <<Block(Heading(1), <<>>)>>
\* C23: the parser terminates on every input: while it runs, each step
\* reads at least one character of the buffer, or leaves the buffer as it is
\* and ends a call of top_loop_ctx, or ends the parse with a Stream or a
\* fatal error; the pair (characters left, open calls) decreases at every
\* step, so no input makes the parser loop forever.
C23_ParserTerminates ==
    [][parse_result = "Pending" =>
          \/ Len(buf') < Len(buf)
          \/ Len(buf') = Len(buf) /\ Len(stack') < Len(stack)
          \/ parse_result' # "Pending"]_vars

\* While the parser runs, the guard of one of its steps holds
C23_NeverStuck ==
    parse_result = "Pending" =>
        /\ stack # <<>>
        /\ \/ buf # <<>> /\ ~StartsWith(buf, COMMAND_CONTENT_CLOSE)
           \/ buf = <<>>
           \/ StartsWith(buf, COMMAND_CONTENT_CLOSE)

\* An unclosed brace after an unclosed block: the parse ended, and failed.
C23_Witness ==
    /\ source = TXT_begin_code \o TXT_open \o TXT_link_to \o TXT_sep_blank
    /\ parse_result = "NomError"
\* t with every maximal run of whitespace replaced by one space
RECURSIVE Collapsed(_)
Collapsed(t) ==
    IF t = <<>> THEN <<>>
    ELSE IF is_whitespace(Head(t))
    THEN <<" ">> \o Collapsed(Drop(t, take_while(Whitespace, t)))
    ELSE <<Head(t)>> \o Collapsed(Tail(t))

HasParagraphBreak(t) ==
    \E i \in 1..(Len(t) - 1) : t[i] = "\n" /\ t[i + 1] = "\n"

\* A newline of t stands next to another whitespace character
HasMixedRun(t) ==
    \E i \in 1..(Len(t) - 1) :
        /\ is_whitespace(t[i]) /\ is_whitespace(t[i + 1])
        /\ (t[i] = "\n" \/ t[i + 1] = "\n")

\* The document is a raw text without paragraph break, then a heading
IsTextThenHeading ==
    /\ doc_result = "Ok"
    /\ Len(tree) = 2
    /\ tree[1].type = "Raw"
    /\ ~HasParagraphBreak(tree[1].text)
    /\ tree[2].type = "Command"

\* C24: the top-level text processor collapses whitespace: every maximal
\* run of whitespace without two consecutive newlines (spaces, tabs, single
\* newlines, in any mix) is written as exactly one space in the Text.
C24_WhitespaceCollapsed ==
    IsTextThenHeading =>
        /\ Len(outline) = 2
        /\ outline[1] = Block(Paragraph, <<SpanText(Collapsed(tree[1].text))>>)

\* The same for the texts whose newlines stand between two words
C24_UnmixedRunsCollapsed ==
    (IsTextThenHeading /\ ~HasMixedRun(tree[1].text)) =>
        /\ Len(outline) = 2
        /\ outline[1] = Block(Paragraph, <<SpanText(Collapsed(tree[1].text))>>)
IsNotMeta(el) == ~IsMetaCommand(el)

\* The stream with its adjacent raw texts joined
RECURSIVE MergeRaw(_)
MergeRaw(stream) ==
    IF Len(stream) < 2 THEN stream
    ELSE IF stream[1].type = "Raw" /\ stream[2].type = "Raw"
    THEN MergeRaw(<<Raw(stream[1].text \o stream[2].text)>> \o Drop(stream, 2))
    ELSE <<stream[1]>> \o MergeRaw(Tail(stream))

\* Raw text, then a command that gives spans
IsTextThenCommand(stream) ==
    /\ Len(stream) >= 2
    /\ stream[1].type = "Raw"
    /\ stream[2].type = "Command" /\ IsNotMeta(stream[2])

\* C25: in root_spans the text buffer goes through the top-level processor
\* before the spans of a command exactly when the command gave a span and
\* the buffer is not empty; a metadata command gives none and leaves the
\* buffer alone, so the text before and after it is processed as one run.
C25_FlushBeforeSpans ==
    doc_result = "Ok" =>
        /\ outline = root(DefaultMetadata, MergeRaw(SelectSeq(tree, IsNotMeta))).outline
        /\ IsTextThenCommand(tree) =>
               HasPrefix(root_spans(DefaultMetadata, tree).spans,
                         toplevel_text(tree[1].text)
                             \o toplevel_run(DefaultMetadata, tree[2]).spans)

\* Text, a metadata command, text, a heading: one paragraph with one space.
C25_Witness ==
    /\ source = TXT_a_space \o TXT_meta_title_a \o TXT_space_a \o TXT_a_head1
    /\ doc_result = "Ok"
    /\ outline[1] = Block(Paragraph, <<SpanText(<<"a", " ", "a", "a">>)>>)

HeadingBlocks(blocks) ==
    {i \in 1..Len(blocks) : blocks[i].format.kind = "Heading"}

\* The digit one above a heading level
ShiftedDigit(level) == IF level = 1 THEN "2" ELSE IF level = 2 THEN "3" ELSE "4"

\* <hN>, as it opens an element
OpenTag(n) == <<"<", "h", n, ">">>

\* C26: the emitter shifts the heading levels by one: Heading(1) is written
\* as h2, Heading(2) as h3, Heading(3) as h4; no document is written with
\* an h1; a Heading of another level is a fatal error of the emitter and no
\* tag is written for it.
C26_HeadingShift ==
    /\ node # None =>
           (node[1] = EmitPanic
               <=> \E i \in HeadingBlocks(outline) :
                       outline[i].format.level \notin {1, 2, 3})
    /\ rendered # None =>
           /\ ~Contains(rendered[1], <<"<", "h", "1">>)
           /\ \A level \in {1, 2, 3} :
                  Contains(rendered[1], OpenTag(ShiftedDigit(level)))
                      <=> \E i \in HeadingBlocks(outline) :
                              outline[i].format.level = level

\* Heading(1) then Heading(3): an h2 and an h4 are written.
C26_Witness ==
    /\ outline = <<Block(Heading(1), <<SpanText(<<"a">>)>>),
                   Block(Heading(3), <<SpanText(<<"a">>)>>)>>
    /\ rendered # None
    /\ Contains(rendered[1], <<"<", "h", "2", ">", "a", "<", "/", "h", "2", ">",
                               "<", "h", "4", ">", "a", "<", "/", "h", "4", ">">>)

\* A Heading(4): the emitter panicked and nothing is written.
C26_WitnessPanic ==
    /\ outline = <<Block(Heading(4), <<SpanText(<<"a">>)>>)>>
    /\ node = Some(EmitPanic)
    /\ rendered = None

\* An inline command, then root text that begins with a paragraph break and
\* goes on with a word, then a heading, which ends the last paragraph
IsCommandThenBreak(stream) ==
    /\ Len(stream) = 3
    /\ stream[1].type = "Command"
    /\ command_name_of(stream[1]) = Name(N_strong)
    /\ stream[2].type = "Raw"
    /\ HasPrefix(stream[2].text, <<"\n", "\n">>)
    /\ \E i \in 1..Len(stream[2].text) : ~is_whitespace(stream[2].text[i])
    /\ stream[3].type = "Command"
    /\ command_name_of(stream[3]) = Name(N_head1)

\* C27: two or more newlines in a row in root text separate paragraphs
\* whatever comes before them: when the output of an inline command is
\* followed by a paragraph break and then text, the span of the command and
\* the text are in different Paragraph blocks.
C27_BreakAfterCommandSeparates ==
    (doc_result = "Ok" /\ IsCommandThenBreak(tree)) =>
        /\ Len(outline) = 3
        /\ outline[1].format = Paragraph
        /\ Len(outline[1].spans) = 1
        /\ outline[1].spans[1].type = "Format"
        /\ outline[2].format = Paragraph
        /\ outline[2].spans[1].type = "Text"

\* The same paragraph break between two words does separate paragraphs.
C27_BreakBetweenWords ==
    (doc_result = "Ok" /\ source = TXT_a \o TXT_newline \o TXT_newline \o TXT_a_head1) =>
        outline = <<Block(Paragraph, <<SpanText(<<"a">>)>>),
                    Block(Paragraph, <<SpanText(<<"a">>)>>),
                    Block(Heading(1), <<>>)>>

\* \strong{a}, a paragraph break, a, a heading: one paragraph holds the
\* span of the command and the text.
C27_OneParagraph ==
    /\ source = TXT_strong_a \o TXT_newline \o TXT_newline \o TXT_a_head1
    /\ doc_result = "Ok"
    /\ outline = <<Block(Paragraph, <<SpanFormat(FormatStrong, <<SpanText(<<"a">>)>>),
                                       SpanText(<<"a">>)>>),
                   Block(Heading(1), <<>>)>>

\* The loop is about to read an \end{...} command
AtEnd ==
    /\ parse_result = "Pending"
    /\ stack # <<>>
    /\ buf # <<>>
    /\ ~StartsWith(buf, COMMAND_CONTENT_CLOSE)
    /\ \E e \in {top(buf)} : e.ok /\ e.kind = "End"

\* Some block is open around the innermost loop
InsideBlock == \E i \in 1..Len(stack) : stack[i].caller = "start"

\* C28: the context of the open block is not carried into the content a
\* command has between braces: an \end{X} read inside {...} is rejected as
\* closing a block outside of any block, even when an enclosing \begin{X}
\* is open; and a block is only ever closed by an \end{X} read by the loop
\* its own \begin{X} started, so a \begin{X} opened inside {...} is closed
\* by an \end{X} inside that same content only.
C28_ContentHasNoContext ==
    [][/\ (AtEnd /\ Innermost.caller = "command") => parse_result' = "StrayEnd"
       /\ closed' # closed =>
              /\ AtEnd
              /\ Innermost.caller = "start"
              /\ Len(stack') = Len(stack) - 1]_vars

\* \begin{code}\strong{\end{code}: the \end{code} inside the braces was
\* rejected although the code block is open.
C28_Witness ==
    /\ source = TXT_begin_code \o TXT_strong_open \o TXT_end_code
    /\ parse_result = "StrayEnd"
    /\ opened = 1
    /\ closed = 0

\* \strong{\begin{code}\end{code}}: the block opened inside the braces was
\* closed inside them.
C28_WitnessClosedInside ==
    /\ source = TXT_strong_open \o TXT_begin_code \o TXT_end_code \o TXT_close
    /\ parse_result = "Ok"
    /\ closed = 1

\* The members of a Vec<Span>: no Block among them, at any depth
RECURSIVE OnlySpans(_)
OnlySpans(spans) ==
    \A k \in 1..Len(spans) :
        /\ spans[k].type \in {"Text", "Format", "LineBreak", "Raw"}
        /\ spans[k].type = "Format" => OnlySpans(spans[k].spans)

\* The names the top-level registry alone knows
ToplevelOnly == TOPLEVEL_COMMANDS \ COMMANDS

IsHeadingCommand(el) ==
    el.type = "Command" /\ command_name_of(el) \in {Name(N_head1), Name(N_head2), Name(N_head3)}

IsInlineCommand(el) ==
    el.type = "Command" /\ command_name_of(el) \in COMMANDS

\* The element i of the stream is an inline command or a heading whose
\* whole content is one command that the top-level registry alone knows
HoldsToplevelOnly(stream, i) ==
    /\ IsHeadingCommand(stream[i]) \/ IsInlineCommand(stream[i])
    /\ Len(stream[i].content) = 1
    /\ stream[i].content[1].type = "Command"
    /\ command_name_of(stream[i].content[1]) \in ToplevelOnly

\* What the element i of such a stream leaves in a block of the outline
PlaceholderLeft(stream, i) ==
    IF IsHeadingCommand(stream[i])
    THEN \E b \in 1..Len(outline) :
             /\ outline[b].format.kind = "Heading"
             /\ outline[b].spans = <<SpanText(UnknownCommandText(stream[i].content[1]))>>
    ELSE (i < Len(stream) /\ IsHeadingCommand(stream[i + 1])) =>
             \E b \in 1..Len(outline) : \E k \in 1..Len(outline[b].spans) :
                 /\ outline[b].spans[k].type = "Format"
                 /\ outline[b].spans[k].spans
                        = <<SpanText(UnknownCommandText(stream[i].content[1]))>>

\* C29: a command inside the content of an inline command or of a heading
\* is looked up in the inline registry only: a command that the top-level
\* registry alone knows (head1..head3, abstract, meta:*) becomes the
\* [[unknown command NAME]] text span there, with its warning, and no span
\* list ever holds a Block.
C29_NestedToplevelOnlyIsUnknown ==
    doc_result = "Ok" =>
        /\ \A b \in 1..Len(outline) : OnlySpans(outline[b].spans)
        /\ \A i \in 1..Len(tree) :
               (tree[i].type = "Command" /\ HoldsToplevelOnly(tree, i)) =>
                   /\ WasUnknown(tree[i].content[1])
                   /\ PlaceholderLeft(tree, i)

\* \strong{\meta:title{a}}\head1{}: the paragraph holds the placeholder.
C29_Witness ==
    /\ source = TXT_strong_open \o TXT_meta_title_a \o TXT_close \o TXT_head1_empty
    /\ doc_result = "Ok"
    /\ metadata.title = None
    /\ Len(outline) = 2
    /\ outline[1].spans[1].type = "Format"
    /\ outline[1].spans[1].spans[1].type = "Text"
    /\ Contains(outline[1].spans[1].spans[1].text, <<"[", "[", "u", "n", "k", "n", "o", "w", "n">>)

\* \head1{\head1{}}: one heading, whose text is the placeholder.
C29_WitnessHeading ==
    /\ source = TXT_head1_open \o TXT_head1_empty \o TXT_close
    /\ doc_result = "Ok"
    /\ Len(outline) = 1
    /\ outline[1].format = Heading(1)
    /\ outline[1].spans[1].type = "Text"

\* The raw text of a content, one Raw element after the other
RECURSIVE RawOf(_)
RawOf(content) ==
    IF content = <<>> THEN <<>>
    ELSE (IF content[1].type = "Raw" THEN content[1].text ELSE <<>>)
             \o RawOf(Tail(content))

\* The texts of a list of Text spans, one after the other
RECURSIVE TextOf(_)
TextOf(spans) ==
    IF spans = <<>> THEN <<>> ELSE spans[1].text \o TextOf(Tail(spans))

\* The first element of the stream is a code command whose content holds
\* Raw elements and comments only
IsPlainCode(stream) ==
    /\ stream # <<>>
    /\ stream[1].type = "Command"
    /\ command_name_of(stream[1]) = Name(N_code)
    /\ \A k \in 1..Len(stream[1].content) :
           stream[1].content[k].type \in {"Raw", "Comment"}

\* The spans the code command at the head of the stream left in the outline
CodeSpans ==
    IF tree[1].block THEN outline[1].spans ELSE outline[1].spans[1].spans

\* The code command at the head of the stream is in the first block of the
\* outline: it is a block, or a heading follows it and ends its paragraph
CodeInOutline ==
    /\ doc_result = "Ok"
    /\ IsPlainCode(tree)
    /\ tree[1].block \/ (Len(tree) = 2 /\ IsHeadingCommand(tree[2]))

\* C30: the content of a code command, inline or block, is preserved: the
\* Text spans it produces, one after the other, are the raw text of its
\* content less the newlines at its very start, also when comments or
\* escapes split the content into several Raw elements.
C30_CodePreserved ==
    CodeInOutline =>
        TextOf(CodeSpans)
            = Drop(RawOf(tree[1].content),
                   take_while({"\n"}, RawOf(tree[1].content)))

\* With one Raw element in the content the text is preserved.
C30_OneRawPreserved ==
    (CodeInOutline /\ Len(tree[1].content) = 1) =>
        TextOf(CodeSpans)
            = Drop(RawOf(tree[1].content),
                   take_while({"\n"}, RawOf(tree[1].content)))

\* \code{a%\n\na}\head1{}: the two newlines after the comment are lost.
C30_NewlinesLost ==
    /\ source = TXT_code_open \o TXT_commented \o TXT_close \o TXT_head1_empty
    /\ doc_result = "Ok"
    /\ RawOf(tree[1].content) = <<"a", "\n", "\n", "a">>
    /\ TextOf(outline[1].spans[1].spans) = <<"a", "a">>

====
